---- MODULE Spec2Model ----
(***************************************************************************)
(* Model of disk_age.Age(alpha): the evolutionary age of a protoplanetary  *)
(* disk from its infrared SED slope alpha (src/disk_age.py).               *)
(*                                                                         *)
(* Numbers.  Python floats are modelled in fixed point: an alpha or a      *)
(* histogram value x is the integer round(x * 10^4) (so -2 is -20000 and   *)
(* 4.8 is 48000); an area under the fitted curve is carried in units of    *)
(* 10^-5; an age is carried in units of 10^-3 Myr.                         *)
(*                                                                         *)
(* Python values.  A value is a record [ty, v, items]: ty is the name of   *)
(* its Python type, v its number (int, float), items its elements (list)   *)
(* or its characters (str).                                                *)
(*                                                                         *)
(* scipy.  splrep and splint are library code.  splrep's smoothing fit is  *)
(* represented by the curve through the histogram points and the area      *)
(* under it up to every knot; splint integrates that curve, taking it to   *)
(* be zero outside the data range as FITPACK's splint does.                *)
(***************************************************************************)
EXTENDS Integers, Sequences, FiniteSets

\* Per call site: where its call of Age stands (pc), what it passed (arg;
\* Unbound when it passed nothing), the names of Age's frame (alpha,
\* histo_alpha, histo_value, tck_36, alpha_max, i, a, Age), what is left of
\* the iteration over alpha (iter), the warnings the call printed (out), the
\* exception it raised (exc) and the value it returned (result).
\* ref: what the latest finished call with each single number returned.
VARIABLES pc, arg, alpha, histo_alpha, histo_value, tck_36, alpha_max,
          iter, i, a, Age, out, exc, result, ref

vars == << pc, arg, alpha, histo_alpha, histo_value, tck_36, alpha_max,
           iter, i, a, Age, out, exc, result, ref >>

-----------------------------------------------------------------------------
(* Bounds of the model. *)

\* Longest list or string passed to Age.
MaxLen == 2

-----------------------------------------------------------------------------
(* Python values. *)

Num(ty, n) == [ty |-> ty, v |-> n, items |-> << >>]
PyFloat(n) == Num("float", n)
PyInt(n) == Num("int", n)
NoneV == [ty |-> "NoneType", v |-> 0, items |-> << >>]
Str(s) == [ty |-> "str", v |-> 0, items |-> s]
List(xs) == [ty |-> "list", v |-> 0, items |-> xs]
\* A name that is not bound (yet).
Unbound == [ty |-> "unbound", v |-> 0, items |-> << >>]

\* type(x) in [int, float]
IsNumber(x) == x.ty \in {"int", "float"}

-----------------------------------------------------------------------------
(* The calibration data, lines 21-22, in units of 10^-4. *)

histo_alpha_data ==
  << -30284, -29463, -28641, -27820, -26999, -26177, -25356, -24535, -23714, -22892, -22071, -21250,
     -20429, -19607, -18786, -17965, -17144, -16322, -15501, -14680, -13859, -13037, -12216, -11395,
     -10574, -9752, -8931, -8110, -7288, -6467, -5646, -4825, -4003, -3182, -2361, -1540,
     -718, 103, 924, 1745, 2567, 3388, 4209, 5030, 5852, 6673, 7494, 8316,
     9137, 9958, 10779, 11601, 12422, 13243, 14064, 14886, 15707, 16528, 17349, 18171,
     18992, 19813, 20634, 21456, 22277, 23098, 23919, 24741, 25562, 26383, 27205, 28026,
     28847, 29668, 30490, 31311, 32132, 32953, 33775, 34596, 35417, 36238, 37060, 37881,
     38702, 39523, 40345, 41166, 41987, 42809, 43630, 44451, 45272, 46094, 46915, 47736 >>
\* Mutant: a frequency entered with the wrong sign.
histo_value_signed ==
  << -24, 49, 154, 1004, 302, 664, 799, 872, 679, 567, 824, 894,
     539, 609, 440, 651, 1632, 1019, 1258, 2190, 4328, 4496, 5447, 8863,
     9892, 8628, 7834, 5833, 5380, 5554, 3450, 2628, 2606, 1985, 1683, 1656,
     2011, 1924, 1866, 1419, 1612, 839, 1171, 1264, 1471, 988, 1377, 1110,
     1259, 576, 676, 781, 750, 435, 483, 543, 361, 721, 804, 194,
     304, 257, 189, 200, 10, 378, 36, 45, 31, 198, 10, 0,
     26, 0, 11, 0, 0, 0, 0, 0, 0, 0, 0, 0,
     0, 0, 0, 0, 0, 0, 0, 0, 0, 0, 0, 0 >>

histo_value_data ==
  << 24, 49, 154, 1004, 302, 664, 799, 872, 679, 567, 824, 894,
     539, 609, 440, 651, 1632, 1019, 1258, 2190, 4328, 4496, 5447, 8863,
     9892, 8628, 7834, 5833, 5380, 5554, 3450, 2628, 2606, 1985, 1683, 1656,
     2011, 1924, 1866, 1419, 1612, 839, 1171, 1264, 1471, 988, 1377, 1110,
     1259, 576, 676, 781, 750, 435, 483, 543, 361, 721, 804, 194,
     304, 257, 189, 200, 10, 378, 36, 45, 31, 198, 10, 0,
     26, 0, 11, 0, 0, 0, 0, 0, 0, 0, 0, 0,
     0, 0, 0, 0, 0, 0, 0, 0, 0, 0, 0, 0 >>

\* alpha_max = 4.814672904812319
alpha_max_lit == 48147
\* The allowed range of alpha: -2 and 4.8.
LowerLimit == -20000
UpperLimit == 48000
\* The normalisation window: splint(-0.3, -1.6, tck_36).
WindowFrom == -3000
WindowTo == -16000
\* splrep(..., k=3, s=0.08)
SplineDegree == 3
Smoothing == 800
\* Mutant: the default is 1.0.
DefaultAlphaOne == PyFloat(10000)
\* alpha=0.0
DefaultAlpha == PyFloat(0)
\* Areas (10^-8 as computed) are carried in units of 10^-5.
AreaUnit == 10^3
\* Ages are carried in units of 10^-3 Myr.
AgeUnit == 10^3

-----------------------------------------------------------------------------
(* scipy.interpolate.splrep and splint. *)

\* Area under the curve between the knots k and k+1.
BinArea(x, y, k) == ((x[k + 1] - x[k]) * (y[k] + y[k + 1])) \div 2

RECURSIVE CumArea(_, _, _)
CumArea(x, y, k) == IF k <= 1 THEN 0 ELSE CumArea(x, y, k - 1) + BinArea(x, y, k - 1)

\* The fitted curve: its knots t, its values c there, its degree k, and the
\* area cum[n] under it from the first knot to knot n.
splrep(x, y, k, s) ==
  [t |-> x, c |-> y, k |-> k, cum |-> [n \in 1..Len(x) |-> CumArea(x, y, n)]]

\* The area under the curve of tck from its first knot to x; the curve is
\* zero outside its knots.
Antiderivative(tck, x) ==
  LET n == Len(tck.t)
  IN IF x <= tck.t[1] THEN 0
     ELSE IF x >= tck.t[n] THEN tck.cum[n]
     ELSE LET k == CHOOSE m \in 1..(n - 1) : tck.t[m] <= x /\ x < tck.t[m + 1]
              dx == x - tck.t[k]
              yx == tck.c[k] + ((tck.c[k + 1] - tck.c[k]) * dx) \div (tck.t[k + 1] - tck.t[k])
          IN tck.cum[k] + (dx * (tck.c[k] + yx)) \div 2

\* splint(lo, hi, tck): the integral of the curve from lo to hi.
splint(lo, hi, tck) == (Antiderivative(tck, hi) - Antiderivative(tck, lo)) \div AreaUnit

-----------------------------------------------------------------------------
(* The call sites and the arguments they pass. *)

\* Two independent call sites; the sequential specification uses the first.
Callers == {"A", "B"}
MainCaller == "A"

RECURSIVE SeqsUpTo(_, _)
SeqsUpTo(S, n) ==
  IF n = 0 THEN {<< >>}
  ELSE LET shorter == SeqsUpTo(S, n - 1)
       IN shorter \cup {Append(xs, x) : xs \in shorter, x \in S}

\* Numbers passed as elements of a list; every one is also passed alone.
NumberElems ==
  {PyFloat(-20001), PyFloat(LowerLimit), PyFloat(0), PyFloat(UpperLimit), PyInt(50000)}
Elems == NumberElems \cup {NoneV, Str(<< "x" >>)}
Scalars ==
  NumberElems \cup
  {PyInt(-50000), PyInt(LowerLimit), PyFloat(-19999), PyInt(0), PyFloat(47736),
   PyFloat(47999), PyFloat(48001), PyFloat(alpha_max_lit)}
Lists == {List(xs) : xs \in SeqsUpTo(Elems, MaxLen)}
Strings == {Str(s) : s \in SeqsUpTo({"x"}, MaxLen)}
Inputs == Scalars \cup Lists \cup Strings \cup {NoneV}

\* The arguments of the interleaved calls.
ConcNumbers == {PyFloat(-20001), PyFloat(0)}
ConcInputs ==
  ConcNumbers \cup {List(xs) : xs \in SeqsUpTo(ConcNumbers, MaxLen)} \cup {NoneV}

-----------------------------------------------------------------------------
(* The body of Age, lines 29-41. *)

\* alpha<-2, i<-2
TooSmall(x) == x.v < LowerLimit
\* Mutant: alpha>=4.8.
TooLargeInclusive(x) == x.v >= UpperLimit
\* alpha>4.8, i>4.8
TooLarge(x) == x.v > UpperLimit

\* The printed line: which limit was forced, and the value shown in it.
Warning(x) ==
  IF TooSmall(x) THEN << [kind |-> "small", shown |-> x, limit |-> PyInt(LowerLimit)] >>
  ELSE IF TooLarge(x) THEN << [kind |-> "large", shown |-> x, limit |-> PyFloat(UpperLimit)] >>
  ELSE << >>
\* Mutant: the elif of line 38 is lost.
ElemWarningSmallOnly(x) == IF TooSmall(x) THEN Warning(x) ELSE << >>
\* The if/elif of lines 37-38.
ElemWarning(x) == Warning(x)

\* Python's max(x, y) and min(x, y): the first argument unless the second beats it.
pymax(x, y) == IF y.v > x.v THEN y ELSE x
pymin(x, y) == IF y.v < x.v THEN y ELSE x
\* Mutant: no lower clamp.
LowerClampOff(x) == x
\* max(alpha,-2)
LowerClamp(x) == pymax(x, PyInt(LowerLimit))
\* Mutant: the upper clamp is alpha_max, not 4.8.
UpperClampAlphaMax(x) == pymin(x, PyFloat(alpha_max_lit))
\* min(...,4.8)
UpperClamp(x) == pymin(x, PyFloat(UpperLimit))
Clamp(x) == UpperClamp(LowerClamp(x))

\* splint(-0.3,-1.6,tck_36)
Denominator(tck) == splint(WindowFrom, WindowTo, tck)
\* splint(alpha_max,alpha,tck_36)
Numerator(amax, x, tck) == splint(amax, x.v, tck)
\* splint(alpha_max,alpha,tck_36)*2/splint(-0.3,-1.6,tck_36)
AgeValue(amax, x, tck) ==
  PyFloat((Numerator(amax, x, tck) * 2 * AgeUnit) \div Denominator(tck))

\* Mutant: None is taken as an empty sequence.
IterableOrNone(x) == x.ty \in {"list", "str", "NoneType"}
\* for i in alpha: what can be iterated, and what the iteration yields.
Iterable(x) == x.ty \in {"list", "str"}
Elements(x) ==
  IF x.ty = "str" THEN [n \in 1..Len(x.items) |-> Str(<< x.items[n] >>)] ELSE x.items
\* Mutant: a is a module global, so line 40 reads what another call in its
\* loop has stored there.
LoopOperandGlobal(p, x) ==
  IF \E q \in Callers \ {p} : pc[q] = "loop" /\ IsNumber(a[q])
  THEN a[CHOOSE q \in Callers \ {p} : pc[q] = "loop" /\ IsNumber(a[q])]
  ELSE x
\* The value line 40 integrates up to: the local a of this call.
LoopOperand(p, x) == x
\* Mutant: Age.insert(0, ...).
PrependAge(ages, x) == << x >> \o ages
\* Age.append(...)
AppendAge(ages, x) == Append(ages, x)

\* The fit of line 25.
tck_36_fit == splrep(histo_alpha_data, histo_value_data, SplineDegree, Smoothing)

TypeOK ==
  /\ pc \in [Callers -> {"idle", "dispatch", "loop", "return", "done", "raised"}]
  /\ exc \in [Callers -> {"", "TypeError", "ZeroDivisionError"}]

Init ==
  /\ pc = [p \in Callers |-> "idle"]
  /\ arg = [p \in Callers |-> Unbound]
  /\ alpha = [p \in Callers |-> Unbound]
  /\ histo_alpha = [p \in Callers |-> << >>]
  /\ histo_value = [p \in Callers |-> << >>]
  /\ tck_36 = [p \in Callers |-> Unbound]
  /\ alpha_max = [p \in Callers |-> 0]
  /\ iter = [p \in Callers |-> << >>]
  /\ i = [p \in Callers |-> Unbound]
  /\ a = [p \in Callers |-> Unbound]
  /\ Age = [p \in Callers |-> Unbound]
  /\ out = [p \in Callers |-> << >>]
  /\ exc = [p \in Callers |-> ""]
  /\ result = [p \in Callers |-> Unbound]
  /\ ref = [x \in NumberElems |-> Unbound]

\* Lines 19-26: a new frame with the argument bound, the histogram, the fit
\* and alpha_max.
Frame(p, passed, bound) ==
  /\ pc' = [pc EXCEPT ![p] = "dispatch"]
  /\ arg' = [arg EXCEPT ![p] = passed]
  /\ alpha' = [alpha EXCEPT ![p] = bound]
  /\ histo_alpha' = [histo_alpha EXCEPT ![p] = histo_alpha_data]
  /\ histo_value' = [histo_value EXCEPT ![p] = histo_value_data]
  /\ tck_36' = [tck_36 EXCEPT ![p] = tck_36_fit]
  /\ alpha_max' = [alpha_max EXCEPT ![p] = alpha_max_lit]
  /\ iter' = [iter EXCEPT ![p] = << >>]
  /\ i' = [i EXCEPT ![p] = Unbound]
  /\ a' = [a EXCEPT ![p] = Unbound]
  /\ Age' = [Age EXCEPT ![p] = Unbound]
  /\ out' = [out EXCEPT ![p] = << >>]
  /\ exc' = [exc EXCEPT ![p] = ""]
  /\ result' = [result EXCEPT ![p] = Unbound]
  /\ UNCHANGED ref

\* Age(x), once the caller's previous call is over.
Call(p, x) ==
  /\ pc[p] \in {"idle", "done", "raised"}
  /\ Frame(p, x, x)

\* Age(): alpha is bound to its default.
CallDefault(p) ==
  /\ pc[p] \in {"idle", "done", "raised"}
  /\ Frame(p, Unbound, DefaultAlpha)

\* Lines 29-33.
ScalarBranch(p) ==
  /\ pc[p] = "dispatch"
  /\ IsNumber(alpha[p])
  /\ out' = [out EXCEPT ![p] = @ \o Warning(alpha[p])]
  /\ alpha' = [alpha EXCEPT ![p] = Clamp(@)]
  /\ IF Denominator(tck_36[p]) = 0
     THEN /\ pc' = [pc EXCEPT ![p] = "raised"]
          /\ exc' = [exc EXCEPT ![p] = "ZeroDivisionError"]
          /\ UNCHANGED Age
     ELSE /\ pc' = [pc EXCEPT ![p] = "return"]
          /\ Age' = [Age EXCEPT ![p] = AgeValue(alpha_max[p], alpha'[p], tck_36[p])]
          /\ UNCHANGED exc
  /\ UNCHANGED << arg, histo_alpha, histo_value, tck_36, alpha_max, iter, i, a, result, ref >>

\* Lines 34-36: Age = [] and the start of the iteration over alpha.
ElseBranch(p) ==
  /\ pc[p] = "dispatch"
  /\ ~IsNumber(alpha[p])
  /\ Age' = [Age EXCEPT ![p] = List(<< >>)]
  /\ IF Iterable(alpha[p])
     THEN /\ iter' = [iter EXCEPT ![p] = Elements(alpha[p])]
          /\ pc' = [pc EXCEPT ![p] = "loop"]
          /\ UNCHANGED exc
     ELSE /\ pc' = [pc EXCEPT ![p] = "raised"]
          /\ exc' = [exc EXCEPT ![p] = "TypeError"]
          /\ UNCHANGED iter
  /\ UNCHANGED << arg, alpha, histo_alpha, histo_value, tck_36, alpha_max, i, a, out, result, ref >>

\* Lines 36-40: one round of the loop.
LoopStep(p) ==
  /\ pc[p] = "loop"
  /\ iter[p] # << >>
  /\ i' = [i EXCEPT ![p] = Head(iter[p])]
  /\ iter' = [iter EXCEPT ![p] = Tail(@)]
  /\ IF ~IsNumber(i'[p])
     THEN /\ pc' = [pc EXCEPT ![p] = "raised"]
          /\ exc' = [exc EXCEPT ![p] = "TypeError"]
          /\ UNCHANGED << a, Age, out >>
     ELSE /\ out' = [out EXCEPT ![p] = @ \o ElemWarning(i'[p])]
          /\ a' = [a EXCEPT ![p] = Clamp(i'[p])]
          /\ IF Denominator(tck_36[p]) = 0
             THEN /\ pc' = [pc EXCEPT ![p] = "raised"]
                  /\ exc' = [exc EXCEPT ![p] = "ZeroDivisionError"]
                  /\ UNCHANGED Age
             ELSE /\ Age' = [Age EXCEPT ![p] =
                       List(AppendAge(@.items,
                              AgeValue(alpha_max[p], LoopOperand(p, a'[p]), tck_36[p])))]
                  /\ UNCHANGED << pc, exc >>
  /\ UNCHANGED << arg, alpha, histo_alpha, histo_value, tck_36, alpha_max, result, ref >>

\* Line 36: the iteration is exhausted.
LoopExit(p) ==
  /\ pc[p] = "loop"
  /\ iter[p] = << >>
  /\ pc' = [pc EXCEPT ![p] = "return"]
  /\ UNCHANGED << arg, alpha, histo_alpha, histo_value, tck_36, alpha_max,
                  iter, i, a, Age, out, exc, result, ref >>

\* Line 41.  ref keeps, for the reader of the results, what the latest call
\* with each single number returned.
Return(p) ==
  /\ pc[p] = "return"
  /\ pc' = [pc EXCEPT ![p] = "done"]
  /\ result' = [result EXCEPT ![p] = Age[p]]
  /\ ref' = IF arg[p] \in NumberElems THEN [ref EXCEPT ![arg[p]] = Age[p]] ELSE ref
  /\ UNCHANGED << arg, alpha, histo_alpha, histo_value, tck_36, alpha_max,
                  iter, i, a, Age, out, exc >>

\* One call site, one call after the other.
Next ==
  \/ \E x \in Inputs : Call(MainCaller, x)
  \/ CallDefault(MainCaller)
  \/ ScalarBranch(MainCaller)
  \/ ElseBranch(MainCaller)
  \/ LoopStep(MainCaller)
  \/ LoopExit(MainCaller)
  \/ Return(MainCaller)

Spec == Init /\ [][Next]_vars

\* Two call sites whose calls interleave.
NextConc ==
  \E p \in Callers :
    \/ \E x \in ConcInputs : Call(p, x)
    \/ CallDefault(p)
    \/ ScalarBranch(p)
    \/ ElseBranch(p)
    \/ LoopStep(p)
    \/ LoopExit(p)
    \/ Return(p)

SpecConc == Init /\ [][NextConc]_vars

-----------------------------------------------------------------------------
(* What the claims speak of. *)

\* The call of p was given a number, a list of numbers only, or neither.
NumericList(x) == x.ty = "list" /\ \A n \in 1..Len(x.items) : IsNumber(x.items[n])
Malformed(x) == x # Unbound /\ ~IsNumber(x) /\ ~NumericList(x)
InRange(x) == IsNumber(x) /\ LowerLimit <= x.v /\ x.v <= UpperLimit
OutOfRange(x) == IsNumber(x) /\ (x.v < LowerLimit \/ x.v > UpperLimit)
\* p's call has evaluated the integral ratio for its (last) value.
Evaluated(p) == pc[p] \in {"return", "done"}
Looped(p) == pc[p] \in {"loop", "return", "done"} /\ IsNumber(i[p]) /\ Age[p].ty = "list"
\* The elements p's loop has gone through.
Processed(p) ==
  LET all == Elements(arg[p]) IN SubSeq(all, 1, Len(all) - Len(iter[p]))
Last(s) == s[Len(s)]
\* What an earlier call with the single number x returned, if there was one.
Known(x) == x \in DOMAIN ref /\ ref[x] # Unbound
SeqMax(s) == CHOOSE x \in {s[n] : n \in 1..Len(s)} : \A n \in 1..Len(s) : s[n] <= x

\* C1: for a < -2.0, alone or as an element, the value integrated up to is
\* -2, the age is the one a call Age(-2.0) returned, and one "too small"
\* warning showing a itself is printed.
C1_TooSmallIsClamped ==
  \A p \in Callers :
    /\ (IsNumber(arg[p]) /\ arg[p].v < LowerLimit /\ Evaluated(p)) =>
         /\ alpha[p].v = LowerLimit
         /\ Len(out[p]) = 1
         /\ out[p][1].kind = "small" /\ out[p][1].shown = arg[p]
         /\ (Known(PyFloat(LowerLimit)) => Age[p] = ref[PyFloat(LowerLimit)])
    /\ (Looped(p) /\ i[p].v < LowerLimit) =>
         /\ a[p].v = LowerLimit
         /\ out[p] # << >>
         /\ Last(out[p]).kind = "small" /\ Last(out[p]).shown = i[p]
         /\ (Known(PyFloat(LowerLimit)) => Last(Age[p].items) = ref[PyFloat(LowerLimit)])

C1_Witness ==
  /\ pc[MainCaller] = "done"
  /\ arg[MainCaller] = List(<< PyFloat(0), PyFloat(-20001) >>)
  /\ Known(PyFloat(-20001))
  /\ Known(PyFloat(LowerLimit))

\* C2: for a > 4.8, alone or as an element, the value integrated up to is
\* 4.8, the age is the one a call Age(4.8) returned, and one "too large"
\* warning showing a itself is printed.
C2_TooLargeIsClamped ==
  \A p \in Callers :
    /\ (IsNumber(arg[p]) /\ arg[p].v > UpperLimit /\ Evaluated(p)) =>
         /\ alpha[p] = PyFloat(UpperLimit)
         /\ Len(out[p]) = 1
         /\ out[p][1].kind = "large" /\ out[p][1].shown = arg[p]
         /\ (Known(PyFloat(UpperLimit)) => Age[p] = ref[PyFloat(UpperLimit)])
    /\ (Looped(p) /\ i[p].v > UpperLimit) =>
         /\ a[p] = PyFloat(UpperLimit)
         /\ out[p] # << >>
         /\ Last(out[p]).kind = "large" /\ Last(out[p]).shown = i[p]
         /\ (Known(PyFloat(UpperLimit)) => Last(Age[p].items) = ref[PyFloat(UpperLimit)])

C2_Witness ==
  /\ pc[MainCaller] = "done"
  /\ arg[MainCaller] = List(<< PyFloat(0), PyInt(50000) >>)
  /\ Known(PyInt(50000))
  /\ Known(PyFloat(UpperLimit))

\* C3: for a in [-2.0, 4.8], both ends included, alone or as an element,
\* the call does not fail, the age is a number, no warning is printed for a
\* and the value integrated up to is a itself.
C3_InRangeIsUntouched ==
  \A p \in Callers :
    /\ InRange(arg[p]) =>
         /\ pc[p] # "raised"
         /\ out[p] = << >>
         /\ Evaluated(p) => (alpha[p] = arg[p] /\ IsNumber(Age[p]))
         /\ pc[p] = "done" => result[p] = Age[p]
    /\ (pc[p] \in {"loop", "return", "done", "raised"} /\ InRange(i[p])) =>
         /\ pc[p] # "raised"
         /\ a[p] = i[p]
         /\ Len(out[p]) = Len(SelectSeq(Processed(p), OutOfRange))
         /\ Len(Age[p].items) = Len(Processed(p))
         /\ IsNumber(Last(Age[p].items))

C3_Witness ==
  /\ pc[MainCaller] = "done"
  /\ arg[MainCaller] = PyFloat(UpperLimit)
  /\ IsNumber(result[MainCaller])
  /\ Known(PyFloat(LowerLimit))

\* C4: a call with a list of n numbers (n = 0 and out-of-range elements
\* included) does not fail and returns a list of n ages, the k-th being
\* what the call with the k-th number alone returned.
C4_ListIsElementwise ==
  \A p \in Callers :
    /\ NumericList(arg[p]) => pc[p] # "raised"
    /\ (arg[p].ty = "list" /\ pc[p] = "done") =>
         /\ result[p].ty = "list"
         /\ Len(result[p].items) = Len(arg[p].items)
         /\ \A n \in 1..Len(arg[p].items) :
              Known(arg[p].items[n]) => result[p].items[n] = ref[arg[p].items[n]]

C4_Witness ==
  /\ pc[MainCaller] = "done"
  /\ arg[MainCaller] = List(<< PyInt(50000), PyFloat(0) >>)
  /\ result[MainCaller].items[1] # result[MainCaller].items[2]
  /\ Known(PyInt(50000))
  /\ Known(PyFloat(0))

\* C5: in a call with a list of numbers, the warnings printed so far are
\* those of the out-of-range elements gone through so far, one each and in
\* their order, and every element gone through has its age: a warning
\* ends neither the loop nor the call.
C5_OneWarningPerElement ==
  \A p \in Callers :
    NumericList(arg[p]) =>
      /\ pc[p] # "raised"
      /\ pc[p] \in {"loop", "return", "done"} =>
           LET bad == SelectSeq(Processed(p), OutOfRange)
           IN /\ Len(out[p]) = Len(bad)
              /\ \A n \in 1..Len(bad) :
                   /\ out[p][n].shown = bad[n]
                   /\ out[p][n].kind = IF bad[n].v < LowerLimit THEN "small" ELSE "large"
              /\ Len(Age[p].items) = Len(Processed(p))
      /\ Evaluated(p) => Len(Age[p].items) = Len(arg[p].items)

C5_Witness ==
  /\ pc[MainCaller] = "done"
  /\ arg[MainCaller] = List(<< PyInt(50000), PyFloat(-20001) >>)
  /\ Len(out[MainCaller]) = 2
  /\ Len(result[MainCaller].items) = 2

\* C6 as stated: a call with None, a string or a list holding a non-number
\* ends in an InvalidArgumentType error, never in a result or another error.
C6_Original ==
  \A p \in Callers :
    (Malformed(arg[p]) /\ pc[p] \in {"return", "done", "raised"}) =>
      (pc[p] = "raised" /\ exc[p] = "InvalidArgumentType")

\* C6 as amended: such a call never ends in InvalidArgumentType.  None
\* fails with the TypeError of the for statement; a non-empty string or a
\* list holding None or a string fails with the TypeError of the comparison
\* at its first element that is no number, the elements before it having
\* been gone through; the empty string returns the empty list.
C6_LowLevelTypeError ==
  \A p \in Callers :
    Malformed(arg[p]) =>
      /\ exc[p] \in {"", "TypeError"}
      /\ Evaluated(p) => (arg[p] = Str(<< >>) /\ Age[p] = List(<< >>))
      /\ pc[p] = "raised" =>
           /\ exc[p] = "TypeError"
           /\ \/ arg[p] = NoneV
              \/ /\ Iterable(arg[p])
                 /\ Processed(p) # << >>
                 /\ Last(Processed(p)) = i[p]
                 /\ ~IsNumber(i[p])
                 /\ \A n \in 1..(Len(Processed(p)) - 1) : IsNumber(Processed(p)[n])
                 /\ Len(Age[p].items) = Len(Processed(p)) - 1

C6_Witness ==
  /\ pc[MainCaller] = "raised"
  /\ exc[MainCaller] = "TypeError"
  /\ arg[MainCaller] = List(<< PyInt(50000), NoneV >>)
  /\ Len(out[MainCaller]) = 1

\* C7: a call without argument prints no warning and returns what a call
\* Age(0.0) returned.
C7_DefaultIsZero ==
  \A p \in Callers :
    (arg[p] = Unbound /\ pc[p] # "idle") =>
      /\ pc[p] # "raised"
      /\ out[p] = << >>
      /\ (pc[p] = "done" /\ Known(PyFloat(0))) => result[p] = ref[PyFloat(0)]

C7_Witness ==
  /\ pc[MainCaller] = "done"
  /\ arg[MainCaller] = Unbound
  /\ IsNumber(result[MainCaller])
  /\ Known(PyFloat(0))

\* C8: whatever the interleaving, two finished calls with the same argument
\* have the same result, a finished call has the result an earlier call
\* with the same number had, and the normalisation denominator is the same
\* in every call.
C8_ResultDependsOnInputOnly ==
  \A p, q \in Callers :
    /\ (pc[p] = "done" /\ pc[q] = "done" /\ arg[p] = arg[q]) => result[p] = result[q]
    /\ (pc[p] = "done" /\ Known(arg[p])) => result[p] = ref[arg[p]]
    /\ (pc[p] \notin {"idle"} /\ pc[q] \notin {"idle"}) =>
         Denominator(tck_36[p]) = Denominator(tck_36[q])

C8_Witness ==
  /\ pc["A"] = "done"
  /\ pc["B"] = "done"
  /\ arg["A"] = List(<< PyFloat(-20001), PyFloat(0) >>)
  /\ arg["B"] = arg["A"]
  /\ Known(PyFloat(0))

\* C9 as stated: alpha_max is the largest alpha of the histogram, and the
\* clamped value integrated up to never exceeds alpha_max.
C9_AlphaMaxIsHistogramMax ==
  \A p \in Callers :
    pc[p] # "idle" =>
      /\ alpha_max[p] = SeqMax(histo_alpha[p])
      /\ Evaluated(p) /\ IsNumber(alpha[p]) => alpha[p].v <= alpha_max[p]
      /\ IsNumber(a[p]) => a[p].v <= alpha_max[p]

\* C10 as stated: the histogram of a call is two sequences of 97 points,
\* the bin centres strictly increasing, the frequencies non-negative, and
\* the call does not change them.
C10_Original ==
  \A p \in Callers :
    pc[p] # "idle" =>
      /\ Len(histo_alpha[p]) = 97
      /\ Len(histo_value[p]) = 97

\* C10 as amended: the histogram of a call is two sequences of 96 points,
\* the bin centres strictly increasing, the frequencies non-negative, and
\* they are the same at every point of every call.
C10_HistogramOf96Points ==
  \A p \in Callers :
    pc[p] # "idle" =>
      /\ Len(histo_alpha[p]) = 96
      /\ Len(histo_value[p]) = Len(histo_alpha[p])
      /\ \A n \in 1..(Len(histo_alpha[p]) - 1) : histo_alpha[p][n] < histo_alpha[p][n + 1]
      /\ \A n \in 1..Len(histo_value[p]) : histo_value[p][n] >= 0
      /\ histo_alpha[p] = histo_alpha_data
      /\ histo_value[p] = histo_value_data

C10_Witness ==
  /\ pc[MainCaller] = "loop"
  /\ Len(iter[MainCaller]) = 1
  /\ Len(histo_alpha[MainCaller]) = 96

====
